---- MODULE Spec2Model ----
(***************************************************************************)
(* Model of the FinancelyAI client: the authService module (signUp, login, *)
(* logout, doesAccountExist, checkAuth over two localStorage keys) and the *)
(* App shell that consults it.                                             *)
(***************************************************************************)
EXTENDS Integers, Sequences, FiniteSets, Bags, TLC

(* ---------------------------------------------------------------------- *)
(* Bounds and input sets                                                   *)
(* ---------------------------------------------------------------------- *)

\* number of completed authService calls recorded in one run
MaxOps == 3

\* number of authService calls that may be in flight at once
MaxCalls == 2

Secret == <<"s", "e", "c", "r", "e", "t">>

\* passwords handed to signUp and login: p, p + "x", and the empty string
Passwords == { <<>>, Secret, Secret \o <<"x">> }

\* display names; the second needs JSON escaping
Names == { <<"P">>, <<"\"", "\\">> }

\* values crypto.randomUUID() may return
Salts == { <<"a", "1">>, <<"b", "2">> }

(* ---------------------------------------------------------------------- *)
(* authService: constants and pure helpers                                 *)
(* ---------------------------------------------------------------------- *)

USER_KEY == "financelyai_user"

SESSION_KEY == "financelyai_session"

\* the literal 'true' written under SESSION_KEY
TrueStr == <<"t", "r", "u", "e">>

\* bytes of a SHA-256 digest
DigestLen == 32

\* UTF-8 code of the (ASCII) characters the inputs use
CharCode(ch) ==
    CASE ch = "s" -> 115 [] ch = "e" -> 101 [] ch = "c" -> 99
      [] ch = "r" -> 114 [] ch = "t" -> 116 [] ch = "x" -> 120
      [] ch = "a" -> 97  [] ch = "b" -> 98  [] ch = "1" -> 49
      [] ch = "2" -> 50  [] ch = "P" -> 80  [] ch = "\"" -> 34
      [] ch = "\\" -> 92

\* TextEncoder.encode
Encode(str) == [i \in 1..Len(str) |-> CharCode(str[i])]

\* crypto.subtle.digest('SHA-256', data): a fixed-length digest that is
\* collision-free on inputs shorter than DigestLen (the message followed by
\* the 0x80 padding byte that SHA-256 appends, zero-filled)
Sha256(data) ==
    [i \in 1..DigestLen |->
        IF i <= Len(data) THEN data[i]
        ELSE IF i = Len(data) + 1 THEN 128 ELSE 0]

HexDigits == <<"0", "1", "2", "3", "4", "5", "6", "7",
               "8", "9", "a", "b", "c", "d", "e", "f">>

\* b.toString(16).padStart(2, '0')
ToHex2(b) == <<HexDigits[(b \div 16) + 1], HexDigits[(b % 16) + 1]>>

RECURSIVE Join(_)
\* hashArray.map(...).join(''), splitting the array in halves
Join(parts) ==
    IF parts = <<>> THEN <<>>
    ELSE IF Len(parts) = 1 THEN parts[1]
    ELSE LET mid == Len(parts) \div 2
         IN  Join(SubSeq(parts, 1, mid)) \o Join(SubSeq(parts, mid + 1, Len(parts)))

hashPassword(password, salt) ==
    LET data == Encode(password \o salt)
        hashArray == Sha256(data)
    IN  Join([i \in 1..Len(hashArray) |-> ToHex2(hashArray[i])])

(* ---------------------------------------------------------------------- *)
(* JSON.stringify / JSON.parse of the user record                          *)
(* ---------------------------------------------------------------------- *)

KeyName == <<"n", "a", "m", "e">>
KeySalt == <<"s", "a", "l", "t">>
KeyHash == <<"h", "a", "s", "h">>

\* the JSON escape of one character
EscapeChar(ch) == IF ch \in {"\"", "\\"} THEN <<"\\", ch>> ELSE <<ch>>

EscapeChars(str) == Join([i \in 1..Len(str) |-> EscapeChar(str[i])])

\* JSON text of a string value
Quote(str) == <<"\"">> \o EscapeChars(str) \o <<"\"">>

\* JSON.stringify({ name, salt, hash })
JSONStringify(userData) ==
    <<"{">> \o Quote(KeyName) \o <<":">> \o Quote(userData.name) \o <<",">>
            \o Quote(KeySalt) \o <<":">> \o Quote(userData.salt) \o <<",">>
            \o Quote(KeyHash) \o <<":">> \o Quote(userData.hash) \o <<"}">>

ParseFail == [ok |-> FALSE, val |-> <<>>, next |-> 0]

\* number of consecutive backslashes right before position j, not below lo
BackslashRun(text, lo, j) ==
    CHOOSE k \in 0..(j - lo) :
        /\ \A m \in 1..k : text[j - m] = "\\"
        /\ (k = j - lo \/ text[j - k - 1] # "\\")

RECURSIVE Unescape(_, _, _, _)
\* the characters of text[lo..hi] except the escaping backslashes at the
\* positions intro, splitting the range in halves
Unescape(text, intro, lo, hi) ==
    IF lo > hi THEN <<>>
    ELSE IF lo = hi THEN (IF lo \in intro THEN <<>> ELSE <<text[lo]>>)
    ELSE LET mid == (lo + hi) \div 2
         IN  Unescape(text, intro, lo, mid) \o Unescape(text, intro, mid + 1, hi)

\* a JSON string starting at position i: its value and the position after it
ParseString(text, i) ==
    IF ~(i <= Len(text) /\ text[i] = "\"") THEN ParseFail
    ELSE LET lo == i + 1
             closers == {j \in lo..Len(text) :
                            text[j] = "\"" /\ BackslashRun(text, lo, j) % 2 = 0}
         IN  IF closers = {} THEN ParseFail
             ELSE LET close == CHOOSE j \in closers : \A k \in closers : j <= k
                      intro == {m \in lo..(close - 1) :
                                   text[m] = "\\" /\ BackslashRun(text, lo, m) % 2 = 0}
                  IN  IF \E m \in intro : text[m + 1] \notin {"\"", "\\"}
                      THEN ParseFail
                      ELSE [ok |-> TRUE, val |-> Unescape(text, intro, lo, close - 1),
                            next |-> close + 1]

SyntaxError == [ok |-> FALSE, obj |-> <<>>]

RECURSIVE ParseMembers(_, _, _)
\* the members of a JSON object of strings, from position i; obj maps the keys
\* read so far to their values (a repeated key keeps its last value)
ParseMembers(text, i, obj) ==
    LET k == ParseString(text, i) IN
    IF ~k.ok \/ k.next > Len(text) \/ text[k.next] # ":" THEN SyntaxError
    ELSE LET v == ParseString(text, k.next + 1) IN
         IF ~v.ok \/ v.next > Len(text) THEN SyntaxError
         ELSE LET obj2 == (k.val :> v.val) @@ obj IN
              IF text[v.next] = "}"
              THEN IF v.next = Len(text) THEN [ok |-> TRUE, obj |-> obj2] ELSE SyntaxError
              ELSE IF text[v.next] = ","
              THEN ParseMembers(text, v.next + 1, obj2)
              ELSE SyntaxError

\* JSON.parse(userDataString)
JSONParse(text) ==
    IF Len(text) >= 2 /\ text[1] = "{" THEN ParseMembers(text, 2, <<>>) ELSE SyntaxError

(* ---------------------------------------------------------------------- *)
(* State                                                                   *)
(* ---------------------------------------------------------------------- *)

VARIABLES
    localStorage,     \* the browser store: a function from the keys present to their strings
    calls,            \* the bag of signUp/login calls awaiting their digest (their locals)
    history,          \* completed authService calls, in completion order, with their results
    isAuthenticated,  \* App state
    hasAccount,       \* App state
    isLoadingAuth,    \* App state
    household,        \* App state: Null, or <<h>> for the household h in memory
    statusPc,         \* position of the App's checkUserStatus effect
    statusLocals,     \* accountExists / loggedIn read by checkUserStatus
    handlerPc,        \* position of the App's handleSignUp / handleLogin in flight
    initEffects,      \* init effect runs in flight: a bag of positions, as a function pc -> count
    db,               \* the persisted household: Null before db.initDB, else <<h>>
    dataOps,          \* the bag of handleAddExpense / updateHouseholdData runs in flight
    modal             \* EditMemberModal: Null when closed, else <<its member prop>>

authVars == <<localStorage, calls, history>>

appVars == <<isAuthenticated, hasAccount, isLoadingAuth, household,
             statusPc, statusLocals, handlerPc, initEffects, db, dataOps, modal>>

vars == <<localStorage, calls, history, isAuthenticated, hasAccount, isLoadingAuth,
          household, statusPc, statusLocals, handlerPc, initEffects, db, dataOps, modal>>

\* null, for the values that are either null or one object <<h>>
Null == <<>>

(* ---------------------------------------------------------------------- *)
(* localStorage                                                            *)
(* ---------------------------------------------------------------------- *)

\* localStorage.getItem(key) is not null
hasItem(store, key) == key \in DOMAIN store

\* if (localStorage.getItem(key)): present and not the empty string
truthyItem(store, key) == hasItem(store, key) /\ store[key] # <<>>

setItem(store, key, value) == (key :> value) @@ store

removeItem(store, key) == [k \in (DOMAIN store) \ {key} |-> store[k]]

EmptyStore == removeItem(removeItem([k \in {USER_KEY, SESSION_KEY} |-> <<>>], USER_KEY), SESSION_KEY)

(* ---------------------------------------------------------------------- *)
(* authService operations                                                  *)
(* ---------------------------------------------------------------------- *)

\* doesAccountExist reading the session key
doesAccountExist_Session(store) == truthyItem(store, SESSION_KEY)

doesAccountExist(store) == truthyItem(store, USER_KEY)

checkAuth(store) == hasItem(store, SESSION_KEY) /\ store[SESSION_KEY] = TrueStr

\* the locals a call keeps across its await
Pending(op, name, pass, salt, storedHash) ==
    [op |-> op, name |-> name, pass |-> pass, salt |-> salt, storedHash |-> storedHash]

InFlight == BagToSet(calls)

\* room for one more call within the run's bound
CanStart == Len(history) + BagCardinality(calls) < MaxOps

\* room for one more call in flight
CanAwait == BagCardinality(calls) < MaxCalls

Completed(op, name, pass, ret, threw) ==
    [op |-> op, name |-> name, pass |-> pass, ret |-> ret, threw |-> threw]

\* signUp without its existence check
userAlreadyExists_Missing(store) == FALSE

\* signUp's guard: "User already exists"
userAlreadyExists(store) == truthyItem(store, USER_KEY)

\* signUp storing the record without opening the session
signUpWrites_NoSession(store, userData) ==
    setItem(store, USER_KEY, JSONStringify(userData))

\* signUp's two writes
signUpWrites(store, userData) ==
    setItem(setItem(store, USER_KEY, JSONStringify(userData)), SESSION_KEY, TrueStr)

\* signUp up to its await: the existence check, the salt, the digest request
SignUpBegin(name, pass, salt) ==
    /\ CanStart
    /\ IF userAlreadyExists(localStorage)
       THEN /\ history' = Append(history, Completed("signUp", name, pass, FALSE, FALSE))
            /\ UNCHANGED calls
       ELSE /\ CanAwait
            /\ calls' = calls (+) SetToBag({Pending("signUp", name, pass, salt, <<>>)})
            /\ UNCHANGED history
    /\ UNCHANGED localStorage

\* signUp repeating its existence check after the await
SignUpResume_Recheck(call) ==
    /\ call \in InFlight
    /\ call.op = "signUp"
    /\ IF truthyItem(localStorage, USER_KEY)
       THEN /\ UNCHANGED localStorage
            /\ history' = Append(history,
                    Completed("signUp", call.name, call.pass, FALSE, FALSE))
       ELSE /\ localStorage' =
                    setItem(setItem(localStorage, USER_KEY,
                        JSONStringify([name |-> call.name, salt |-> call.salt,
                                       hash |-> hashPassword(call.pass, call.salt)])),
                        SESSION_KEY, TrueStr)
            /\ history' = Append(history,
                    Completed("signUp", call.name, call.pass, TRUE, FALSE))
    /\ calls' = calls (-) SetToBag({call})

\* signUp after its await: store the record, set the session, return true
SignUpResume(call) ==
    /\ call \in InFlight
    /\ call.op = "signUp"
    /\ LET hash == hashPassword(call.pass, call.salt)
           userData == [name |-> call.name, salt |-> call.salt, hash |-> hash]
       IN  localStorage' = signUpWrites(localStorage, userData)
    /\ calls' = calls (-) SetToBag({call})
    /\ history' = Append(history, Completed("signUp", call.name, call.pass, TRUE, FALSE))

\* login up to its await: read and parse the record, request the digest
LoginBegin(pass) ==
    /\ CanStart
    /\ IF ~truthyItem(localStorage, USER_KEY)
       THEN /\ history' = Append(history, Completed("login", <<>>, pass, FALSE, FALSE))
            /\ UNCHANGED calls
       ELSE LET parsed == JSONParse(localStorage[USER_KEY]) IN
            IF ~parsed.ok
            THEN /\ history' = Append(history, Completed("login", <<>>, pass, FALSE, TRUE))
                 /\ UNCHANGED calls
            ELSE /\ CanAwait
                 /\ calls' = calls (+) SetToBag({Pending("login", <<>>, pass,
                                    parsed.obj[KeySalt], parsed.obj[KeyHash])})
                 /\ UNCHANGED history
    /\ UNCHANGED localStorage

\* an assignment in place of the comparison: truthy whenever storedHash is
hashMatches_Assign(inputHash, storedHash) == storedHash # <<>>

\* inputHash === storedHash
hashMatches(inputHash, storedHash) == inputHash = storedHash

\* login's write on a match
loginWrites(store) == setItem(store, SESSION_KEY, TrueStr)

\* login dropping the session when the password is wrong
LoginResume_ClearsOnFail(call) ==
    /\ call \in InFlight
    /\ call.op = "login"
    /\ LET match == hashPassword(call.pass, call.salt) = call.storedHash
       IN  /\ localStorage' = IF match THEN setItem(localStorage, SESSION_KEY, TrueStr)
                              ELSE removeItem(localStorage, SESSION_KEY)
           /\ history' = Append(history, Completed("login", <<>>, call.pass, match, FALSE))
    /\ calls' = calls (-) SetToBag({call})

\* login after its await: compare, set the session on a match
LoginResume(call) ==
    /\ call \in InFlight
    /\ call.op = "login"
    /\ LET inputHash == hashPassword(call.pass, call.salt)
           match == hashMatches(inputHash, call.storedHash)
       IN  /\ localStorage' = IF match THEN loginWrites(localStorage) ELSE localStorage
           /\ history' = Append(history, Completed("login", <<>>, call.pass, match, FALSE))
    /\ calls' = calls (-) SetToBag({call})

\* logout clearing the whole store
logoutWrites_Clear(store) == removeItem(removeItem(store, SESSION_KEY), USER_KEY)

\* logout removing the wrong key
logoutWrites_WrongKey(store) == removeItem(store, USER_KEY)

\* logout's write
logoutWrites(store) == removeItem(store, SESSION_KEY)

Logout ==
    /\ CanStart
    /\ localStorage' = logoutWrites(localStorage)
    /\ history' = Append(history, Completed("logout", <<>>, <<>>, FALSE, FALSE))
    /\ UNCHANGED calls

(* ---------------------------------------------------------------------- *)
(* The authService module under arbitrary interleaving of its callers      *)
(* ---------------------------------------------------------------------- *)

AppUnmounted ==
    /\ isAuthenticated = FALSE
    /\ hasAccount = FALSE
    /\ isLoadingAuth = TRUE
    /\ household = Null
    /\ statusPc = "unmounted"
    /\ statusLocals = [accountExists |-> FALSE, loggedIn |-> FALSE]
    /\ handlerPc = "idle"
    /\ initEffects = [pc \in {"initDB", "reload"} |-> 0]
    /\ db = Null
    /\ dataOps = EmptyBag
    /\ modal = Null

Init ==
    /\ localStorage = EmptyStore
    /\ calls = EmptyBag
    /\ history = <<>>
    /\ AppUnmounted

CallSignUpBegin ==
    \E name \in Names, pass \in Passwords, salt \in Salts :
        SignUpBegin(name, pass, salt) /\ UNCHANGED appVars

CallSignUpResume == \E call \in InFlight : SignUpResume(call) /\ UNCHANGED appVars

CallLoginBegin == \E pass \in Passwords : LoginBegin(pass) /\ UNCHANGED appVars

CallLoginResume == \E call \in InFlight : LoginResume(call) /\ UNCHANGED appVars

CallLogout == Logout /\ UNCHANGED appVars

Next ==
    \/ CallSignUpBegin
    \/ CallSignUpResume
    \/ CallLoginBegin
    \/ CallLoginResume
    \/ CallLogout

Spec == Init /\ [][Next]_vars

(* ---------------------------------------------------------------------- *)
(* The authService module under a sequential caller: a call starts only    *)
(* when the previous one has returned                                      *)
(* ---------------------------------------------------------------------- *)

Sequential == calls = EmptyBag

SeqSignUpBegin == Sequential /\ CallSignUpBegin

SeqSignUpResume == CallSignUpResume

SeqLoginBegin == Sequential /\ CallLoginBegin

SeqLoginResume == CallLoginResume

SeqLogout == Sequential /\ CallLogout

NextSeq ==
    \/ SeqSignUpBegin
    \/ SeqSignUpResume
    \/ SeqLoginBegin
    \/ SeqLoginResume
    \/ SeqLogout

SpecSeq == Init /\ [][NextSeq]_vars

(* ---------------------------------------------------------------------- *)
(* The authService module when its callers start no signUp or login call   *)
(* once a logout has completed; calls started earlier still resume         *)
(* ---------------------------------------------------------------------- *)

LoggedOutOnce == \E i \in 1..Len(history) : history[i].op = "logout"

QuietSignUpBegin == ~LoggedOutOnce /\ CallSignUpBegin

QuietSignUpResume == CallSignUpResume

QuietLoginBegin == ~LoggedOutOnce /\ CallLoginBegin

QuietLoginResume == CallLoginResume

QuietLogout == CallLogout

NextQuiet ==
    \/ QuietSignUpBegin
    \/ QuietSignUpResume
    \/ QuietLoginBegin
    \/ QuietLoginResume
    \/ QuietLogout

SpecQuiet == Init /\ [][NextQuiet]_vars

(* ---------------------------------------------------------------------- *)
(* The household and the db service that persists it                       *)
(* ---------------------------------------------------------------------- *)

\* what db.initDB seeds for a new user
SeedHousehold ==
    [members |-> <<[id |-> 1, name |-> <<"R">>, avatarUrl |-> <<"u">>]>>,
     expenses |-> <<>>,
     budgets |-> <<>>,
     notifications |-> <<>>]

\* db.initDB(): creates and seeds the household unless it exists
initDB(d) == IF d = Null THEN <<SeedHousehold>> ELSE d

\* db.loadHouseholdData()
loadHouseholdData(d) == d[1]

\* db.addExpense(expense, notifications)
addExpense(d, expense, notifications) ==
    <<[d[1] EXCEPT !.expenses = Append(@, expense),
                   !.notifications = @ \o notifications]>>

\* db.updateHousehold(data): data holds some of the household's fields
updateHousehold(d, data) ==
    <<[f \in DOMAIN d[1] |-> IF f \in DOMAIN data THEN data[f] ELSE d[1][f]]>>

(* ---------------------------------------------------------------------- *)
(* The App shell: startup check, sign-up / login / logout handlers, and    *)
(* the init effect that loads the household once authenticated             *)
(* ---------------------------------------------------------------------- *)

\* SignUp.handleSubmit rejects shorter passwords
MinPasswordLen == 6

\* a value of SESSION_KEY other than 'true'
FalseStr == <<"f", "a", "l", "s", "e">>

\* a value of USER_KEY that is not JSON
Garbage == <<"x">>

\* records a signUp call can have stored
StoredRecords ==
    { JSONStringify([name |-> n, salt |-> s, hash |-> hashPassword(p, s)]) :
        n \in Names, p \in Passwords, s \in Salts }

\* every content of the two keys the App may find at startup
InitialStores ==
    LET users == {<<>>, Garbage} \union StoredRecords
        sessions == {<<>>, TrueStr, FalseStr}
    IN  {EmptyStore}
        \union {setItem(EmptyStore, USER_KEY, u) : u \in users}
        \union {setItem(EmptyStore, SESSION_KEY, f) : f \in sessions}
        \union {setItem(setItem(EmptyStore, USER_KEY, u), SESSION_KEY, f) :
                    u \in users, f \in sessions}

\* what App renders
Screen ==
    IF isLoadingAuth THEN "loadingAuth"
    ELSE IF ~isAuthenticated THEN (IF hasAccount THEN "login" ELSE "signup")
    ELSE IF household = Null THEN "loadingData"
    ELSE "app"

\* the init effect runs when isAuthenticated changed; it awaits db.initDB()
\* only when the new value is true
initEffectRun(effects, wasAuthenticated, nowAuthenticated) ==
    IF nowAuthenticated /\ ~wasAuthenticated
    THEN [effects EXCEPT !["initDB"] = @ + 1]
    ELSE effects

\* checkUserStatus asking checkAuth whether or not an account exists
statusChecksAuth_Always(accountExists) == TRUE

\* checkUserStatus asks checkAuth only if (accountExists)
statusChecksAuth(accountExists) == accountExists

\* checkUserStatus up to its first await
CheckUserStatusBegin ==
    /\ statusPc = "mount"
    /\ statusLocals' = [statusLocals EXCEPT !.accountExists = doesAccountExist(localStorage)]
    /\ statusPc' = "awaitExists"
    /\ UNCHANGED <<authVars, isAuthenticated, hasAccount, isLoadingAuth, household,
                   handlerPc, initEffects, db, dataOps, modal>>

\* checkUserStatus after doesAccountExist resolved
CheckUserStatusExists ==
    /\ statusPc = "awaitExists"
    /\ hasAccount' = statusLocals.accountExists
    /\ IF statusChecksAuth(statusLocals.accountExists)
       THEN /\ statusLocals' = [statusLocals EXCEPT !.loggedIn = checkAuth(localStorage)]
            /\ statusPc' = "awaitAuth"
            /\ UNCHANGED isLoadingAuth
       ELSE /\ isLoadingAuth' = FALSE
            /\ statusPc' = "done"
            /\ UNCHANGED statusLocals
    /\ UNCHANGED <<authVars, isAuthenticated, household, handlerPc, initEffects, db, dataOps, modal>>

\* checkUserStatus after checkAuth resolved
CheckUserStatusAuth ==
    /\ statusPc = "awaitAuth"
    /\ isAuthenticated' = (isAuthenticated \/ statusLocals.loggedIn)
    /\ initEffects' = initEffectRun(initEffects, isAuthenticated, isAuthenticated')
    /\ isLoadingAuth' = FALSE
    /\ statusPc' = "done"
    /\ UNCHANGED <<authVars, hasAccount, household, statusLocals, handlerPc, db, dataOps, modal>>

\* SignUp.handleSubmit -> App.handleSignUp -> auth.signUp, up to the await
AppSignUpSubmit ==
    /\ Screen = "signup"
    /\ handlerPc = "idle"
    /\ \E name \in Names, pass \in Passwords, confirm \in Passwords, salt \in Salts :
        /\ pass = confirm
        /\ Len(pass) >= MinPasswordLen
        /\ SignUpBegin(name, pass, salt)
    /\ handlerPc' = IF userAlreadyExists(localStorage) THEN "idle" ELSE "signUp"
    /\ UNCHANGED <<isAuthenticated, hasAccount, isLoadingAuth, household,
                   statusPc, statusLocals, initEffects, db, dataOps, modal>>

\* auth.signUp resolves true; handleSignUp awaits db.initDB()
AppSignUpDigest ==
    /\ handlerPc = "signUp"
    /\ \E call \in InFlight : SignUpResume(call)
    /\ handlerPc' = "initDB"
    /\ UNCHANGED <<isAuthenticated, hasAccount, isLoadingAuth, household,
                   statusPc, statusLocals, initEffects, db, dataOps, modal>>

\* db.initDB() resolves; handleSignUp sets isAuthenticated and hasAccount
AppSignUpInitDB ==
    /\ handlerPc = "initDB"
    /\ isAuthenticated' = TRUE
    /\ hasAccount' = TRUE
    /\ initEffects' = initEffectRun(initEffects, isAuthenticated, TRUE)
    /\ handlerPc' = "idle"
    /\ db' = initDB(db)
    /\ UNCHANGED <<authVars, isLoadingAuth, household, statusPc, statusLocals, dataOps, modal>>

\* Login.handleSubmit -> App.handleLogin -> auth.login, up to the await; a
\* rejected login leaves Login.handleSubmit unfinished (isLoading stays true)
AppLoginSubmit ==
    /\ Screen = "login"
    /\ handlerPc = "idle"
    /\ \E pass \in Passwords : Len(pass) > 0 /\ LoginBegin(pass)
    /\ handlerPc' = IF calls' # calls THEN "login"
                    ELSE IF history'[Len(history')].threw THEN "rejected"
                    ELSE "idle"
    /\ UNCHANGED <<isAuthenticated, hasAccount, isLoadingAuth, household,
                   statusPc, statusLocals, initEffects, db, dataOps, modal>>

\* auth.login resolves; on success handleLogin sets isAuthenticated
AppLoginDigest ==
    /\ handlerPc = "login"
    /\ \E call \in InFlight : LoginResume(call)
    /\ isAuthenticated' = (isAuthenticated \/ history'[Len(history')].ret)
    /\ initEffects' = initEffectRun(initEffects, isAuthenticated, isAuthenticated')
    /\ handlerPc' = "idle"
    /\ UNCHANGED <<hasAccount, isLoadingAuth, household, statusPc, statusLocals, db, dataOps, modal>>

\* App.handleLogout, from the header button of the authenticated app
AppLogout ==
    /\ Screen = "app"
    /\ Logout
    /\ isAuthenticated' = FALSE
    /\ household' = Null
    /\ initEffects' = initEffectRun(initEffects, isAuthenticated, FALSE)
    /\ modal' = Null
    /\ UNCHANGED <<hasAccount, isLoadingAuth, statusPc, statusLocals, handlerPc, db, dataOps>>

\* init effect: db.initDB() resolves, reloadData awaits db.loadHouseholdData()
InitEffectInitDB ==
    /\ initEffects["initDB"] > 0
    /\ initEffects' = [initEffects EXCEPT !["initDB"] = @ - 1, !["reload"] = @ + 1]
    /\ db' = initDB(db)
    /\ UNCHANGED <<authVars, isAuthenticated, hasAccount, isLoadingAuth, household,
                   statusPc, statusLocals, handlerPc, dataOps, modal>>

\* init effect: db.loadHouseholdData() resolves, reloadData sets household
InitEffectReload ==
    /\ initEffects["reload"] > 0
    /\ initEffects' = [initEffects EXCEPT !["reload"] = @ - 1]
    /\ household' = <<loadHouseholdData(db)>>
    /\ UNCHANGED <<authVars, isAuthenticated, hasAccount, isLoadingAuth,
                   statusPc, statusLocals, handlerPc, db, dataOps, modal>>

InitApp ==
    /\ localStorage \in InitialStores
    /\ calls = EmptyBag
    /\ history = <<>>
    /\ isAuthenticated = FALSE
    /\ hasAccount = FALSE
    /\ isLoadingAuth = TRUE
    /\ household = Null
    /\ statusPc = "mount"
    /\ statusLocals = [accountExists |-> FALSE, loggedIn |-> FALSE]
    /\ handlerPc = "idle"
    /\ initEffects = [pc \in {"initDB", "reload"} |-> 0]
    /\ db \in {Null, <<SeedHousehold>>}
    /\ dataOps = EmptyBag
    /\ modal = Null

NextApp ==
    \/ CheckUserStatusBegin
    \/ CheckUserStatusExists
    \/ CheckUserStatusAuth
    \/ AppSignUpSubmit
    \/ AppSignUpDigest
    \/ AppSignUpInitDB
    \/ AppLoginSubmit
    \/ AppLoginDigest
    \/ AppLogout
    \/ InitEffectInitDB
    \/ InitEffectReload

SpecApp == InitApp /\ [][NextApp]_vars

(* ---------------------------------------------------------------------- *)
(* The authenticated App: handleAddExpense, updateHouseholdData, reloadData *)
(* ---------------------------------------------------------------------- *)

\* expenses handed to handleAddExpense in one run
MaxExpenses == 1

\* updateHouseholdData runs in flight at once
MaxPending == 1

Categories == {"food", "fun"}

Amounts == {1, 9, 10}

\* an expense's date as its month relative to the current one
Dates == {-1, 0, 1}

\* expenses without an id
Expenses ==
    [categoryId : Categories, amount : Amounts, date : Dates, memberId : {1},
     splits : {<<>>}]

\* the expenses AddExpenseModal / FileImport hand to handleAddExpense, dated
\* in the current month
NewExpenses == {e \in Expenses : e.date = 0}

\* new Date(e.date) >= startOfMonth, startOfMonth the first day of this month
sinceStartOfMonth(date) == date >= 0

\* household.budgets.find(b => b.categoryId === categoryId): Null or <<b>>
findBudget(budgets, categoryId) ==
    LET hits == {i \in 1..Len(budgets) : budgets[i].categoryId = categoryId}
    IN  IF hits = {} THEN Null
        ELSE <<budgets[CHOOSE i \in hits : \A k \in hits : i <= k]>>

RECURSIVE sumAmounts(_)
\* expenses.reduce((sum, e) => sum + e.amount, 0)
sumAmounts(expenses) ==
    IF expenses = <<>> THEN 0 ELSE Head(expenses).amount + sumAmounts(Tail(expenses))

\* spentBefore: this category's expenses that pass the date filter
spentBefore(h, categoryId) ==
    sumAmounts(SelectSeq(h.expenses,
        LAMBDA e : e.categoryId = categoryId /\ sinceStartOfMonth(e.date)))

Notification(kind, type) == [id |-> kind, type |-> type, isRead |-> FALSE]

BudgetExceeded == Notification("notif-budget-exceeded", "error")

BudgetWarning == Notification("notif-budget-warning", "warning")

Anomaly == Notification("notif-anomaly", "warning")

\* handleAddExpense step 1, the budget alert check over the household h of the
\* render; ninetyPercentBudget = budget.amount * 0.9 is compared in tenths
budgetAlerts(h, newExpense) ==
    LET budget == findBudget(h.budgets, newExpense.categoryId) IN
    IF budget # Null /\ budget[1].amount > 0
    THEN LET before == spentBefore(h, newExpense.categoryId)
             after == before + newExpense.amount
             amount == budget[1].amount
         IN  IF before < amount /\ after >= amount
             THEN <<BudgetExceeded>>
             ELSE IF 10 * before < 9 * amount /\ 10 * after >= 9 * amount /\ after < amount
             THEN <<BudgetWarning>>
             ELSE <<>>
    ELSE <<>>

\* a handleAddExpense / updateHouseholdData run at one of its awaits
DataOp(op, stage, expense, notifications, data) ==
    [op |-> op, stage |-> stage, expense |-> expense,
     notifications |-> notifications, data |-> data]

\* a run awaiting db.loadHouseholdData() inside reloadData
Reloading(op) == DataOp(op, "reload", Null, <<>>, <<>>)

PendingOps == BagToSet(dataOps)

\* the id of the expenses added in this run, `exp-${crypto.randomUUID()}`
NewExpenseId == "exp-uuid"

\* expenses of this run stored or on their way to the db
ExpensesInRun ==
    (IF db = Null THEN 0
     ELSE Len(SelectSeq(db[1].expenses, LAMBDA e : e.id = NewExpenseId)))
    + BagCardinality(dataOps) - CopiesIn(Reloading("addExpense"), dataOps)

\* handleAddExpense up to its first await: the budget alert check, then
\* detectAnomalousExpense is called
HandleAddExpenseBegin(newExpense) ==
    /\ Screen = "app"
    /\ ExpensesInRun < MaxExpenses
    /\ LET expenseWithId == [id |-> NewExpenseId] @@ newExpense
           notificationsToAdd == budgetAlerts(household[1], newExpense)
       IN  dataOps' = dataOps (+) SetToBag({DataOp("addExpense", "anomaly",
                          <<expenseWithId>>, notificationsToAdd, <<>>)})
    /\ UNCHANGED <<authVars, isAuthenticated, hasAccount, isLoadingAuth, household,
                   statusPc, statusLocals, handlerPc, initEffects, db, modal>>

\* detectAnomalousExpense resolves (anomalous or not) or rejects; then
\* db.addExpense is called
HandleAddExpenseAnomaly(o, outcome) ==
    /\ o \in PendingOps
    /\ o.stage = "anomaly"
    /\ LET notificationsToAdd ==
               IF outcome = "anomalous" THEN Append(o.notifications, Anomaly)
               ELSE o.notifications
       IN  dataOps' = (dataOps (-) SetToBag({o}))
                        (+) SetToBag({DataOp("addExpense", "dbAdd", o.expense,
                                             notificationsToAdd, <<>>)})
    /\ UNCHANGED <<authVars, isAuthenticated, hasAccount, isLoadingAuth, household,
                   statusPc, statusLocals, handlerPc, initEffects, db, modal>>

\* db.addExpense resolves; reloadData is called
HandleAddExpenseStored(o) ==
    /\ o \in PendingOps
    /\ o.stage = "dbAdd"
    /\ db' = addExpense(db, o.expense[1], o.notifications)
    /\ dataOps' = (dataOps (-) SetToBag({o})) (+) SetToBag({Reloading("addExpense")})
    /\ UNCHANGED <<authVars, isAuthenticated, hasAccount, isLoadingAuth, household,
                   statusPc, statusLocals, handlerPc, initEffects, modal>>

\* updateHouseholdData up to its await on db.updateHousehold(data)
updateHouseholdData(ops, data) ==
    ops (+) SetToBag({DataOp("update", "dbUpdate", Null, <<>>, data)})

\* db.updateHousehold resolves; reloadData is called
UpdateHouseholdDataStored(o) ==
    /\ o \in PendingOps
    /\ o.stage = "dbUpdate"
    /\ db' = updateHousehold(db, o.data)
    /\ dataOps' = (dataOps (-) SetToBag({o})) (+) SetToBag({Reloading("update")})
    /\ UNCHANGED <<authVars, isAuthenticated, hasAccount, isLoadingAuth, household,
                   statusPc, statusLocals, handlerPc, initEffects, modal>>

\* reloadData of a handler: db.loadHouseholdData() resolves, setHousehold(data)
ReloadData(o) ==
    /\ o \in PendingOps
    /\ o.stage = "reload"
    /\ household' = <<loadHouseholdData(db)>>
    /\ dataOps' = dataOps (-) SetToBag({o})
    /\ UNCHANGED <<authVars, isAuthenticated, hasAccount, isLoadingAuth,
                   statusPc, statusLocals, handlerPc, initEffects, db, modal>>

(* ---------------------------------------------------------------------- *)
(* EditMemberModal                                                         *)
(* ---------------------------------------------------------------------- *)

\* member ids crypto.randomUUID() can produce in one run
MaxMembers == 3

MemberIds == 1..MaxMembers

\* text typed into the name field
NameInputs == {<<" ">>, <<" ", "S", " ">>}

\* text typed into the avatar URL field
AvatarInputs == {<<" ">>, <<"u">>}

\* String.prototype.trim
trim(str) ==
    LET kept == {i \in 1..Len(str) : str[i] # " "} IN
    IF kept = {} THEN <<>>
    ELSE SubSeq(str, CHOOSE i \in kept : \A k \in kept : i <= k,
                     CHOOSE i \in kept : \A k \in kept : i >= k)

memberIdsOf(h) == {h.members[i].id : i \in 1..Len(h.members)}

\* ids in use anywhere: in memory, persisted, or in an update on its way
UsedMemberIds ==
    (IF household = Null THEN {} ELSE memberIdsOf(household[1]))
    \union (IF db = Null THEN {} ELSE memberIdsOf(db[1]))
    \union UNION {{o.data.members[i].id : i \in 1..Len(o.data.members)} :
                    o \in {x \in PendingOps : x.stage = "dbUpdate"}}

\* the parent opens the modal on one of the rendered members, or on null
OpenModal(member) ==
    /\ Screen = "app"
    /\ modal = Null
    /\ modal' = <<member>>
    /\ UNCHANGED <<authVars, isAuthenticated, hasAccount, isLoadingAuth, household,
                   statusPc, statusLocals, handlerPc, initEffects, db, dataOps>>

\* Cancel: onClose
CloseModal ==
    /\ modal # Null
    /\ modal' = Null
    /\ UNCHANGED <<authVars, isAuthenticated, hasAccount, isLoadingAuth, household,
                   statusPc, statusLocals, handlerPc, initEffects, db, dataOps>>

\* handleSubmit's form check
formIsBlank(name, avatarUrl) == trim(name) = <<>> \/ trim(avatarUrl) = <<>>

\* handleSubmit's updatedMembers: edit the member, or append a new one
submitMembers(members, member, name, avatarUrl, newId) ==
    IF member # Null
    THEN [i \in 1..Len(members) |->
            IF members[i].id = member[1].id
            THEN [members[i] EXCEPT !.name = trim(name), !.avatarUrl = trim(avatarUrl)]
            ELSE members[i]]
    ELSE Append(members, [id |-> newId, name |-> trim(name), avatarUrl |-> trim(avatarUrl)])

\* EditMemberModal.handleSubmit
MemberSubmit(name, avatarUrl, newId) ==
    /\ Screen = "app"
    /\ modal # Null
    /\ (modal[1] = Null => newId \notin UsedMemberIds)
    /\ IF formIsBlank(name, avatarUrl)
       THEN UNCHANGED <<dataOps, modal>>
       ELSE /\ BagCardinality(dataOps) < MaxPending
            /\ dataOps' = updateHouseholdData(dataOps,
                   [members |-> submitMembers(household[1].members, modal[1],
                                              name, avatarUrl, newId)])
            /\ modal' = Null
    /\ UNCHANGED <<authVars, isAuthenticated, hasAccount, isLoadingAuth, household,
                   statusPc, statusLocals, handlerPc, initEffects, db>>

\* handleDelete's check for associated expenses, with a member id only
hasExpenses_PayerOnly(expenses, memberId) ==
    \E i \in 1..Len(expenses) : expenses[i].memberId = memberId

\* handleDelete's check for associated expenses
hasExpenses(expenses, memberId) ==
    \E i \in 1..Len(expenses) :
        \/ expenses[i].memberId = memberId
        \/ \E k \in 1..Len(expenses[i].splits) : expenses[i].splits[k].memberId = memberId

\* handleDelete's updatedMembers
deleteMembers(members, memberId) == SelectSeq(members, LAMBDA m : m.id # memberId)

\* EditMemberModal.handleDelete; confirmed is the answer to window.confirm
MemberDelete(confirmed) ==
    /\ Screen = "app"
    /\ modal # Null
    /\ modal[1] # Null
    /\ IF hasExpenses(household[1].expenses, modal[1][1].id) \/ ~confirmed
       THEN UNCHANGED <<dataOps, modal>>
       ELSE /\ BagCardinality(dataOps) < MaxPending
            /\ dataOps' = updateHouseholdData(dataOps,
                   [members |-> deleteMembers(household[1].members, modal[1][1].id)])
            /\ modal' = Null
    /\ UNCHANGED <<authVars, isAuthenticated, hasAccount, isLoadingAuth, household,
                   statusPc, statusLocals, handlerPc, initEffects, db>>

(* ---------------------------------------------------------------------- *)
(* The authenticated App with its household loaded, as left by an earlier  *)
(* session: sign-up as "P" with password "secret", some expenses stored    *)
(* ---------------------------------------------------------------------- *)

Member(id, name) == [id |-> id, name |-> name, avatarUrl |-> <<"u">>]

\* the App after startup found the record and the session flag, and the init
\* effect loaded the household h
AuthenticatedWith(h) ==
    /\ localStorage = signUpWrites(EmptyStore,
            [name |-> <<"P">>, salt |-> <<"a", "1">>,
             hash |-> hashPassword(Secret, <<"a", "1">>)])
    /\ calls = EmptyBag
    /\ history = <<>>
    /\ isAuthenticated = TRUE
    /\ hasAccount = TRUE
    /\ isLoadingAuth = FALSE
    /\ household = <<h>>
    /\ statusPc = "done"
    /\ statusLocals = [accountExists |-> TRUE, loggedIn |-> TRUE]
    /\ handlerPc = "idle"
    /\ initEffects = [pc \in {"initDB", "reload"} |-> 0]
    /\ db = <<h>>
    /\ dataOps = EmptyBag
    /\ modal = Null

\* budgets a household may have: one of 0 or one of 10 for "food", none for
\* "fun"
BudgetLists ==
    {<<[categoryId |-> "food", amount |-> 0]>>,
     <<[categoryId |-> "food", amount |-> 10]>>}

\* the expense stored by an earlier run: 9 on "food" last, this or next
\* month, or 9 on "fun" this month
StoredExpenses ==
    {e \in Expenses : e.amount = 9 /\ (e.categoryId = "food" \/ e.date = 0)}

\* households with at most one stored expense
ExpenseHouseholds ==
    { [members |-> <<Member(1, <<"R">>)>>, expenses |-> es, budgets |-> bs,
       notifications |-> <<>>] :
        es \in {<<>>} \union {<<[id |-> "exp-old"] @@ e>> : e \in StoredExpenses},
        bs \in BudgetLists }

InitData == \E h \in ExpenseHouseholds : AuthenticatedWith(h)

AddExpenseBegin == \E e \in NewExpenses : HandleAddExpenseBegin(e)

AddExpenseAnomaly ==
    \E o \in PendingOps, outcome \in {"normal", "anomalous", "error"} :
        HandleAddExpenseAnomaly(o, outcome)

AddExpenseStored == \E o \in PendingOps : HandleAddExpenseStored(o)

UpdateStored == \E o \in PendingOps : UpdateHouseholdDataStored(o)

Reloaded == \E o \in PendingOps : ReloadData(o)

\* the members the parent can open the modal on
ModalOpened ==
    \E member \in {Null} \union {<<household[1].members[i]>> :
                                  i \in 1..(IF household = Null THEN 0
                                            ELSE Len(household[1].members))} :
        OpenModal(member)

\* a new member gets the least unused id
ModalSubmit ==
    \E name \in NameInputs, avatarUrl \in AvatarInputs, newId \in MemberIds :
        /\ \A k \in MemberIds \ UsedMemberIds : newId <= k
        /\ MemberSubmit(name, avatarUrl, newId)

ModalDelete == \E confirmed \in BOOLEAN : MemberDelete(confirmed)

NextData ==
    \/ AddExpenseBegin
    \/ AddExpenseAnomaly
    \/ AddExpenseStored
    \/ Reloaded
    \/ AppLogout
    \/ AppLoginSubmit
    \/ AppLoginDigest
    \/ InitEffectInitDB
    \/ InitEffectReload

SpecData == InitData /\ [][NextData]_vars

(* ---------------------------------------------------------------------- *)
(* EditMemberModal alone over a household whose expenses refer to members  *)
(* ---------------------------------------------------------------------- *)

\* expenses paid by member 1 or 2, split with nobody, member 1 or member 2
MemberExpenses ==
    { [id |-> "exp-uuid", categoryId |-> "food", amount |-> 1, date |-> 0,
       memberId |-> payer, splits |-> splits] :
        payer \in {1, 2},
        splits \in {<<>>, <<[memberId |-> 1, amount |-> 1]>>,
                          <<[memberId |-> 2, amount |-> 1]>>} }

MemberHouseholds ==
    { [members |-> <<Member(1, <<"R">>), Member(2, <<"S">>)>>, expenses |-> es,
       budgets |-> <<>>, notifications |-> <<>>] :
        es \in {<<>>} \union {<<e>> : e \in MemberExpenses} }

InitMembers == \E h \in MemberHouseholds : AuthenticatedWith(h)

NextMembers ==
    \/ ModalOpened
    \/ CloseModal
    \/ ModalSubmit
    \/ ModalDelete
    \/ UpdateStored
    \/ Reloaded

SpecMembers == InitMembers /\ [][NextMembers]_vars

(* ---------------------------------------------------------------------- *)
(* Properties                                                              *)
(* ---------------------------------------------------------------------- *)

Last(h) == h[Len(h)]

SignUpOk(e) == e.op = "signUp" /\ e.ret

LoginOf(e) == e.op = "login"

\* C1: in a sequential run from an empty store, every login(q) completed
\* after a signUp(n, p) that returned true returns true exactly when q = p,
\* and never throws
C1_LoginAcceptsExactlyThePassword ==
    \A i, j \in 1..Len(history) :
        (i < j /\ SignUpOk(history[i]) /\ LoginOf(history[j]))
            => (~history[j].threw /\ history[j].ret = (history[j].pass = history[i].pass))

\* signUp(n, p) succeeded, then login(p) returned true and login(p + "x") false
C1_Witness ==
    /\ Len(history) = 3
    /\ SignUpOk(history[1])
    /\ LoginOf(history[2]) /\ history[2].pass = history[1].pass /\ history[2].ret
    /\ LoginOf(history[3]) /\ history[3].pass = history[1].pass \o <<"x">> /\ ~history[3].ret

\* C2: a signUp call made right after another signUp call has completed
\* returns false at once and leaves the store, hence the record, as it was
C2_SecondSignUpRejected ==
    [][(history # <<>> /\ Last(history).op = "signUp" /\ SeqSignUpBegin)
        => /\ localStorage' = localStorage
           /\ calls' = calls
           /\ Len(history') = Len(history) + 1
           /\ Last(history').op = "signUp"
           /\ ~Last(history').ret
           /\ ~Last(history').threw]_vars

\* two signUp calls in a row with different names and passwords: true, false
C2_Witness ==
    /\ Len(history) >= 2
    /\ SignUpOk(history[1])
    /\ history[2].op = "signUp" /\ ~history[2].ret
    /\ history[2].name # history[1].name
    /\ history[2].pass # history[1].pass
    /\ doesAccountExist(localStorage)

\* C3: logout leaves checkAuth false, the user record untouched and
\* doesAccountExist true if it was true
C3_LogoutRemovesOnlySession ==
    [][CallLogout
        => /\ ~checkAuth(localStorage')
           /\ hasItem(localStorage', USER_KEY) = hasItem(localStorage, USER_KEY)
           /\ (hasItem(localStorage, USER_KEY)
                  => localStorage'[USER_KEY] = localStorage[USER_KEY])
           /\ (doesAccountExist(localStorage) => doesAccountExist(localStorage'))]_vars

\* a logout right after a successful signUp: session gone, account still there
C3_Witness ==
    /\ Len(history) >= 2
    /\ SignUpOk(history[Len(history) - 1])
    /\ Last(history).op = "logout"
    /\ ~checkAuth(localStorage)
    /\ doesAccountExist(localStorage)

\* C4: in a sequential run, no step of a login call that returns false changes
\* the store (session flag and record), and such a call does not throw
C4_FailedLoginChangesNothing ==
    [][((\E pass \in Passwords : LoginBegin(pass))
        \/ (\E call \in InFlight : LoginResume(call) /\ ~Last(history').ret))
        => /\ localStorage' = localStorage
           /\ (history' # history => (LoginOf(Last(history')) /\ ~Last(history').threw))]_vars

\* a login with no record and a login with a wrong password both returned
\* false; the second left the session flag of the signUp in place
C4_Witness ==
    /\ Len(history) = 3
    /\ LoginOf(history[1]) /\ ~history[1].ret
    /\ SignUpOk(history[2])
    /\ LoginOf(history[3]) /\ ~history[3].ret /\ history[3].pass # history[2].pass
    /\ checkAuth(localStorage)

\* C5: doesAccountExist is true exactly from the first successful signUp on
C5_AccountExistsIffSignedUp ==
    doesAccountExist(localStorage) = (\E i \in 1..Len(history) : SignUpOk(history[i]))

\* after a successful signUp, a logout and a failed login, the account exists
C5_Witness ==
    /\ Len(history) = 3
    /\ SignUpOk(history[1])
    /\ history[2].op = "logout"
    /\ LoginOf(history[3]) /\ ~history[3].ret
    /\ doesAccountExist(localStorage)

\* the screen the two storage keys call for
ScreenFor(store) ==
    IF ~doesAccountExist(store) THEN "signup"
    ELSE IF checkAuth(store) THEN "authenticated"
    ELSE "login"

\* the screen App shows once the startup check is over
Shown ==
    CASE Screen = "signup" -> "signup"
      [] Screen = "login" -> "login"
      [] Screen \in {"loadingData", "app"} -> "authenticated"
      [] OTHER -> "loadingAuth"

\* C6: when the startup check finishes, App shows sign-up iff no user record
\* is stored, login iff one is stored and the session flag is not 'true', the
\* authenticated app iff one is stored and the flag is 'true'
C6_StartupScreenMatchesStore ==
    [][(isLoadingAuth /\ ~isLoadingAuth') => Shown' = ScreenFor(localStorage')]_vars

\* startup finished on a stale session flag without a record: sign-up screen
C6_Witness ==
    /\ statusPc = "done"
    /\ history = <<>>
    /\ handlerPc = "idle"
    /\ checkAuth(localStorage)
    /\ ~doesAccountExist(localStorage)
    /\ Screen = "signup"

\* the completed calls that touch the session: successful signUp, successful
\* login, logout
SessionOps(h) == SelectSeq(h, LAMBDA e : e.op = "logout" \/ e.ret)

\* C7: in a sequential run from an empty store, checkAuth is true exactly when
\* the last completed call among {successful signUp, successful login, logout}
\* is not a logout
C7_CheckAuthFollowsLastSessionOp ==
    checkAuth(localStorage)
        = (SessionOps(history) # <<>> /\ Last(SessionOps(history)).op # "logout")

\* signUp, logout, then a failed login: still logged out
C7_Witness ==
    /\ Len(history) = 3
    /\ SignUpOk(history[1])
    /\ history[2].op = "logout"
    /\ LoginOf(history[3]) /\ ~history[3].ret
    /\ ~checkAuth(localStorage)

\* C8 as stated: once the user-record key holds a value, no step changes or
\* removes it
C8_RecordNeverChanges ==
    [][hasItem(localStorage, USER_KEY)
        => /\ hasItem(localStorage', USER_KEY)
           /\ localStorage'[USER_KEY] = localStorage[USER_KEY]]_vars

\* C8 amended: once the user-record key holds a value it is never removed; a
\* signUp call that starts afterwards returns at once without writing; the only
\* step that replaces the value is the completion of a signUp call that was
\* already awaiting its digest
C8_RecordChangedOnlyByPendingSignUp ==
    [][hasItem(localStorage, USER_KEY)
        => /\ hasItem(localStorage', USER_KEY)
           /\ (CallSignUpBegin => (calls' = calls /\ localStorage' = localStorage))
           /\ (localStorage'[USER_KEY] # localStorage[USER_KEY]
                  => \E call \in InFlight :
                        call.op = "signUp" /\ calls' = calls (-) SetToBag({call}))]_vars

\* two signUp calls with different passwords both succeeded, and the stored
\* record is the second one's
C8_Witness ==
    /\ Len(history) >= 2
    /\ SignUpOk(history[1]) /\ SignUpOk(history[2])
    /\ history[1].pass # history[2].pass
    /\ \E s \in Salts :
          localStorage[USER_KEY] =
              JSONStringify([name |-> history[2].name, salt |-> s,
                             hash |-> hashPassword(history[2].pass, s)])

\* C9: a signUp call that passed its existence check together with another
\* one (the other is still awaiting its digest, or has written the record
\* meanwhile) returns true when it resumes
C9_RacingSignUpsBothSucceed ==
    [][\A call \in InFlight :
        (/\ call.op = "signUp"
         /\ calls' = calls (-) SetToBag({call})
         /\ (userAlreadyExists(localStorage)
                \/ \E other \in BagToSet(calls') : other.op = "signUp"))
        => /\ Len(history') = Len(history) + 1
           /\ SignUpOk(Last(history'))]_vars

\* both of two interleaved signUp calls have returned true
C9_Witness ==
    /\ Len(history) = 2
    /\ SignUpOk(history[1]) /\ SignUpOk(history[2])
    /\ calls = EmptyBag

\* C10: from an empty store, the session flag is 'true' only if a user record
\* exists
C10_SessionImpliesAccount == checkAuth(localStorage) => doesAccountExist(localStorage)

\* logged in again by a successful login after a logout
C10_Witness ==
    /\ Len(history) = 3
    /\ SignUpOk(history[1])
    /\ history[2].op = "logout"
    /\ LoginOf(history[3]) /\ history[3].ret
    /\ checkAuth(localStorage)

\* C11: once a logout has completed and no signUp or login call is started
\* after it, checkAuth is false, also while and after the calls started before
\* the logout resume
C11_LogoutSticks == LoggedOutOnce => ~checkAuth(localStorage)

\* C12: while the App is logged out the in-memory household is null, whatever
\* asynchronous work (init effect, handleAddExpense) was pending at the logout
C12_LoggedOutHouseholdNull == ~isAuthenticated => household = Null

\* the member ids the expenses refer to, as payer or in a split
ReferencedIds(expenses) ==
    {expenses[i].memberId : i \in 1..Len(expenses)}
    \union UNION {{expenses[i].splits[k].memberId : k \in 1..Len(expenses[i].splits)} :
                    i \in 1..Len(expenses)}

IdsOf(members) == {members[i].id : i \in 1..Len(members)}

\* every expense's payer and split members are among the members
Integrity(h) == ReferencedIds(h.expenses) \subseteq IdsOf(h.members)

\* the member lists the modal handed to onUpdate in this step
Submitted ==
    {o.data.members : o \in {x \in BagToSet(dataOps') :
        x.stage = "dbUpdate" /\ CopiesIn(x, dataOps') > CopiesIn(x, dataOps)}}

\* handleDelete hands over nothing, or the list without exactly that member,
\* who is then no payer and in no split
DeleteAsClaimed ==
    LET members == household[1].members
        id == modal[1][1].id
    IN  \/ dataOps' = dataOps
        \/ /\ id \notin ReferencedIds(household[1].expenses)
           /\ Submitted = {SelectSeq(members, LAMBDA m : m.id # id)}

\* handleSubmit hands over nothing, or (edit) as many members with the same
\* ids in the same places, or (add) the members and one more at the end
SubmitAsClaimed ==
    LET members == household[1].members IN
    \/ dataOps' = dataOps
    \/ \E updated \in Submitted :
        /\ Submitted = {updated}
        /\ IF modal[1] # Null
           THEN /\ Len(updated) = Len(members)
                /\ \A i \in 1..Len(members) :
                     /\ updated[i].id = members[i].id
                     /\ members[i].id # modal[1][1].id => updated[i] = members[i]
           ELSE /\ Len(updated) = Len(members) + 1
                /\ SubSeq(updated, 1, Len(members)) = members
                /\ updated[Len(updated)].id \notin IdsOf(members)

\* C13: the modal never removes a member an expense refers to: delete hands
\* over nothing for a payer or split member and otherwise the list without that
\* member, edit keeps ids and count, add appends one; so the members an expense
\* refers to stay in the household in memory, in the db and in every update on
\* its way, over any sequence of the modal's operations
C13_ReferencedMembersStay ==
    /\ [](/\ household # Null => Integrity(household[1])
          /\ db # Null => Integrity(db[1])
          /\ \A o \in PendingOps : o.stage = "dbUpdate" =>
                ReferencedIds(db[1].expenses) \subseteq IdsOf(o.data.members))
    /\ [][/\ ModalDelete => DeleteAsClaimed
          /\ ModalSubmit => SubmitAsClaimed]_vars

\* a household with an expense from which member 2 was deleted and to which
\* member 3 was added, both stored and reloaded
C13_Witness ==
    /\ db # Null /\ household = db
    /\ db[1].expenses # <<>>
    /\ IdsOf(db[1].members) = {1, 3}

\* the sum of the category's expenses dated in the current month
MonthSpend(expenses, categoryId) ==
    sumAmounts(SelectSeq(expenses,
        LAMBDA e : e.categoryId = categoryId /\ e.date = 0))

\* the handleAddExpense runs that passed their budget check in this step
Checked ==
    {o \in BagToSet(dataOps') :
        o.stage = "anomaly" /\ CopiesIn(o, dataOps') > CopiesIn(o, dataOps)}

\* the notifications of the run o are the ones the claim names, B the budget of
\* the expense's category, S the stored month spend, A the new amount
AlertsAsClaimed(o) ==
    LET e == o.expense[1]
        budgets == {db[1].budgets[i] : i \in 1..Len(db[1].budgets)}
        mine == {b \in budgets : b.categoryId = e.categoryId /\ b.amount > 0}
        queued == {o.notifications[i] : i \in 1..Len(o.notifications)}
        S == MonthSpend(db[1].expenses, e.categoryId)
        A == e.amount
    IN  /\ BudgetExceeded \in queued <=>
              \E b \in mine : S < b.amount /\ S + A >= b.amount
        /\ BudgetWarning \in queued <=>
              \E b \in mine : /\ 10 * S < 9 * b.amount
                              /\ 9 * b.amount <= 10 * (S + A)
                              /\ S + A < b.amount
        /\ ~(BudgetExceeded \in queued /\ BudgetWarning \in queued)

\* the run o, done with db.addExpense in this step, stored its expense and
\* its notifications
StoredAsClaimed(o) ==
    /\ db'[1].expenses = Append(db[1].expenses, o.expense[1])
    /\ db'[1].notifications = db[1].notifications \o o.notifications

\* C14: handleAddExpense queues budget-exceeded iff S < B and S + A >= B,
\* budget-warning iff S < 0.9 B and 0.9 B <= S + A < B, never both, neither
\* without a budget above 0, and stores the expense with what it queued
C14_AlertsFollowMonthSpend ==
    [][/\ \A o \in Checked : AlertsAsClaimed(o)
       /\ \A o \in PendingOps :
            (o.stage = "dbAdd" /\ CopiesIn(o, dataOps') < CopiesIn(o, dataOps))
                => StoredAsClaimed(o)]_vars

====
